---- MODULE Spec2Model ----
(***************************************************************************)
(* A model of the SRVP traceability pipeline of scripts/update_srvp.py:     *)
(* requirement-id extraction from documents and test docstrings, status    *)
(* resolution, release metadata, report synthesis and main()'s control      *)
(* flow, also over two consecutive runs; and of create_git_tag of           *)
(* hooks/create_git_tag_from_changelog.py.                                  *)
(*                                                                          *)
(* Texts are sequences of one-character strings, so that the regular        *)
(* expressions of the script are computed on characters.                    *)
(***************************************************************************)
EXTENDS Integers, Sequences, FiniteSets, TLC

(***************************************************************************)
(* Characters and strings                                                   *)
(***************************************************************************)
UpperLetters ==
    << "A", "B", "C", "D", "E", "F", "G", "H", "I", "J", "K", "L", "M",
       "N", "O", "P", "Q", "R", "S", "T", "U", "V", "W", "X", "Y", "Z" >>

Digits ==
    << "0", "1", "2", "3", "4", "5", "6", "7", "8", "9" >>

LowerLetters ==
    << "a", "b", "c", "d", "e", "f", "g", "h", "i", "j", "k", "l", "m",
       "n", "o", "p", "q", "r", "s", "t", "u", "v", "w", "x", "y", "z" >>

IsLower(c) ==
    \E i \in 1..Len(LowerLetters) : LowerLetters[i] = c

\* [A-Z] of the requirement pattern
IsUpper(c) ==
    \E i \in 1..Len(UpperLetters) : UpperLetters[i] = c

\* \d of the requirement pattern
IsDigit(c) ==
    \E i \in 1..Len(Digits) : Digits[i] = c

\* \s of the regular expressions: the model's texts hold blanks and newlines
IsSpace(c) ==
    c \in {" ", "\n"}

\* Characters besides letters and digits that the model's texts hold, with
\* their code points
Punctuation ==
    << << "\n", 10 >>, << " ", 32 >>, << "\"", 34 >>, << "(", 40 >>,
       << ")", 41 >>, << "-", 45 >>, << ".", 46 >>, << "/", 47 >>,
       << ":", 58 >>, << "=", 61 >>, << "_", 95 >> >>

\* ord(c); Python compares strings by code point.
CodePoint(c) ==
    IF IsDigit(c) THEN 47 + (CHOOSE i \in 1..Len(Digits) : Digits[i] = c)
    ELSE IF IsUpper(c) THEN 64 + (CHOOSE i \in 1..Len(UpperLetters) : UpperLetters[i] = c)
    ELSE IF IsLower(c) THEN 96 + (CHOOSE i \in 1..Len(LowerLetters) : LowerLetters[i] = c)
    ELSE Punctuation[CHOOSE i \in 1..Len(Punctuation) : Punctuation[i][1] = c][2]

\* Python's str.__lt__: the first differing character decides, a proper
\* prefix is smaller.
RECURSIVE StrLess(_, _)
StrLess(a, b) ==
    IF b = << >> THEN FALSE
    ELSE IF a = << >> THEN TRUE
    ELSE IF Head(a) = Head(b) THEN StrLess(Tail(a), Tail(b))
    ELSE CodePoint(Head(a)) < CodePoint(Head(b))

\* Concatenation of a sequence of strings
RECURSIVE Flatten(_)
Flatten(ss) ==
    IF ss = << >> THEN << >> ELSE Head(ss) \o Flatten(Tail(ss))

\* The elements of a sequence, as a set
Range(s) ==
    { s[i] : i \in DOMAIN s }

(***************************************************************************)
(* The requirement pattern  REQ-(?:[A-Z]+-)+\d{3}                           *)
(***************************************************************************)
\* The end of the run of [A-Z] that starts at position j (j itself when the
\* character at j is no uppercase letter).
RECURSIVE UpperRunEnd(_, _)
UpperRunEnd(s, j) ==
    IF j <= Len(s) /\ IsUpper(s[j]) THEN UpperRunEnd(s, j + 1) ELSE j

\* (?:[A-Z]+-)* from position j, greedy: the position after the last group.
\* A group is a non-empty run of uppercase letters followed by '-'; letters
\* and '-' and digits are disjoint, so backtracking finds no other split.
RECURSIVE GroupsEnd(_, _)
GroupsEnd(s, j) ==
    LET k == UpperRunEnd(s, j)
    IN  IF k > j /\ k <= Len(s) /\ s[k] = "-" THEN GroupsEnd(s, k + 1) ELSE j

\* \d{3} at position p
ThreeDigitsAt(s, p) ==
    /\ p + 2 <= Len(s)
    /\ IsDigit(s[p])
    /\ IsDigit(s[p + 1])
    /\ IsDigit(s[p + 2])

\* The pattern matched at position i: the position after the match, 0 when
\* there is no match at i.  Nothing anchors the match on either side.
MatchReqAt(s, i) ==
    IF /\ i + 3 <= Len(s)
       /\ s[i] = "R" /\ s[i + 1] = "E" /\ s[i + 2] = "Q" /\ s[i + 3] = "-"
    THEN LET p == GroupsEnd(s, i + 4)
         IN  IF p > i + 4 /\ ThreeDigitsAt(s, p) THEN p + 3 ELSE 0
    ELSE 0

\* pattern.findall(text) from position i: the non-overlapping matches, left
\* to right, as a list (repeats kept).
RECURSIVE FindAllFrom(_, _)
FindAllFrom(s, i) ==
    IF i > Len(s) THEN << >>
    ELSE LET e == MatchReqAt(s, i)
         IN  IF e > 0 THEN << SubSeq(s, i, e - 1) >> \o FindAllFrom(s, e)
             ELSE FindAllFrom(s, i + 1)

FindAll(s) ==
    FindAllFrom(s, 1)

(***************************************************************************)
(* extract_requirement_ids_from_docs                                        *)
(***************************************************************************)
\* \w of the regular expressions
IsWord(c) ==
    IsUpper(c) \/ IsLower(c) \/ IsDigit(c) \/ c = "_"

\* A file of the working tree: whether it exists, whether reading it
\* succeeds, and its text.
File(text) ==
    [exists |-> TRUE, readable |-> TRUE, text |-> text]

MissingFile ==
    [exists |-> FALSE, readable |-> FALSE, text |-> << >>]

UnreadableFile ==
    [exists |-> TRUE, readable |-> FALSE, text |-> << >>]

\* The ids one document contributes: none when it does not exist or when
\* reading it raises (the exception is swallowed).
DocIds(doc) ==
    IF doc.exists /\ doc.readable THEN Range(FindAll(doc.text)) ELSE {}

\* ExtractRequirementIdsFromDocs scanning SRVP_PATH alone
ExtractRequirementIdsFromDocs_SrvpOnly(srvp_file, srs_file) ==
    DocIds(srvp_file)

\* ids.update(pattern.findall(text)) for SRVP_PATH and SRS_PATH
ExtractRequirementIdsFromDocs(srvp_file, srs_file) ==
    DocIds(srvp_file) \cup DocIds(srs_file)

(***************************************************************************)
(* extract_req_ids_from_docstrings                                          *)
(*   pattern  def (test_\w+)\([^)]*\):[\s\S]*?"""([\s\S]*?)"""             *)
(***************************************************************************)
StartsWithAt(s, i, lit) ==
    /\ i + Len(lit) - 1 <= Len(s)
    /\ \A k \in 1..Len(lit) : s[i + k - 1] = lit[k]

DefTestLit ==
    << "d", "e", "f", " ", "t", "e", "s", "t", "_" >>

TripleQuote ==
    << "\"", "\"", "\"" >>

RECURSIVE WordRunEnd(_, _)
WordRunEnd(s, j) ==
    IF j <= Len(s) /\ IsWord(s[j]) THEN WordRunEnd(s, j + 1) ELSE j

\* The first position >= j holding the character c, 0 when there is none
RECURSIVE FindChar(_, _, _)
FindChar(s, j, c) ==
    IF j > Len(s) THEN 0
    ELSE IF s[j] = c THEN j
    ELSE FindChar(s, j + 1, c)

\* The first position >= j where lit starts, 0 when there is none
RECURSIVE FindLit(_, _, _)
FindLit(s, j, lit) ==
    IF j + Len(lit) - 1 > Len(s) THEN 0
    ELSE IF StartsWithAt(s, j, lit) THEN j
    ELSE FindLit(s, j + 1, lit)

\* def (test_\w+)\([^)]*\):  at position i.  \w+ is followed by '(' and
\* [^)]* by the first ')', so the greedy match is the only one.
DefHeaderAt(s, i) ==
    LET w == WordRunEnd(s, i + Len(DefTestLit))
        c == IF w <= Len(s) /\ s[w] = "(" THEN FindChar(s, w + 1, ")") ELSE 0
    IN  IF /\ StartsWithAt(s, i, DefTestLit)
           /\ w > i + Len(DefTestLit)
           /\ c > 0
           /\ c + 1 <= Len(s)
           /\ s[c + 1] = ":"
        THEN [ok |-> TRUE, name |-> SubSeq(s, i + 4, w - 1), end |-> c + 2]
        ELSE [ok |-> FALSE, name |-> << >>, end |-> 0]

\* The whole pattern at position i.  [\s\S]*? is lazy and matches any
\* character, newlines and code included: the block is the text between the
\* first two triple quotes found anywhere after the header.
DocstringMatchAt(s, i) ==
    LET h  == DefHeaderAt(s, i)
        q1 == IF h.ok THEN FindLit(s, h.end, TripleQuote) ELSE 0
        q2 == IF q1 > 0 THEN FindLit(s, q1 + 3, TripleQuote) ELSE 0
    IN  IF q2 > 0
        THEN [ok |-> TRUE, name |-> h.name,
              docstring |-> SubSeq(s, q1 + 3, q2 - 1), end |-> q2 + 3]
        ELSE [ok |-> FALSE, name |-> << >>, docstring |-> << >>, end |-> 0]

\* re.finditer(pattern, content) from position i: the non-overlapping
\* matches, left to right.
RECURSIVE FindIterFrom(_, _)
FindIterFrom(s, i) ==
    IF i > Len(s) THEN << >>
    ELSE LET m == DocstringMatchAt(s, i)
         IN  IF m.ok THEN << m >> \o FindIterFrom(s, m.end)
             ELSE FindIterFrom(s, i + 1)

\* f"tests/{test_file.name}::{test_name}"
FullTestName(file_name, test_name) ==
    << "t", "e", "s", "t", "s", "/" >> \o file_name \o << ":", ":" >> \o test_name

\* for req_id in req_ids: req_to_tests.setdefault(req_id, []).append(test)
RECURSIVE AppendAll(_, _, _)
AppendAll(map, req_ids, test) ==
    IF req_ids = << >> THEN map
    ELSE LET r == Head(req_ids)
             m == IF r \in DOMAIN map
                  THEN [map EXCEPT ![r] = Append(@, test)]
                  ELSE [x \in DOMAIN map \cup {r} |->
                            IF x = r THEN << test >> ELSE map[x]]
         IN  AppendAll(m, Tail(req_ids), test)

\* The loop over the matches of one file
RECURSIVE FoldMatches(_, _, _)
FoldMatches(map, file_name, matches) ==
    IF matches = << >> THEN map
    ELSE LET m == Head(matches)
         IN  FoldMatches(
                 AppendAll(map, FindAll(m.docstring), FullTestName(file_name, m.name)),
                 file_name, Tail(matches))

\* The loop over TESTS_DIR.glob("test_*.py"); files is the sequence of
\* [name, content] in the order glob yields them.
RECURSIVE FoldFiles(_, _)
FoldFiles(map, files) ==
    IF files = << >> THEN map
    ELSE FoldFiles(
             FoldMatches(map, Head(files).name, FindIterFrom(Head(files).content, 1)),
             Tail(files))

EmptyMap ==
    [x \in {} |-> << >>]

ExtractReqIdsFromDocstrings(files) ==
    FoldFiles(EmptyMap, files)

(***************************************************************************)
(* Release metadata: _read_doc_author_from_srvp, _git_cmd_output,           *)
(* _get_release_metadata.  An optional value is << >> (None) or << v >>.    *)
(***************************************************************************)
None ==
    << >>

Some(v) ==
    << v >>

\* Python's truth of an optional string: None and "" are false
Truthy(o) ==
    o # None /\ o[1] # << >>

\* a or b
Or(a, b) ==
    IF Truthy(a) THEN a ELSE b

\* str.strip()
RECURSIVE LStrip(_)
LStrip(s) ==
    IF s # << >> /\ IsSpace(Head(s)) THEN LStrip(Tail(s)) ELSE s

RECURSIVE RStrip(_)
RStrip(s) ==
    IF s # << >> /\ IsSpace(s[Len(s)]) THEN RStrip(SubSeq(s, 1, Len(s) - 1)) ELSE s

Strip(s) ==
    RStrip(LStrip(s))

DocAuthorLit ==
    << "d", "o", "c", "A", "u", "t", "h", "o", "r", ":" >>

UnknownAuthor ==
    << "U", "n", "k", "n", "o", "w", "n" >>

DefaultVersion ==
    << "0", ".", "0", ".", "0" >>

RECURSIVE SpaceRunEnd(_, _)
SpaceRunEnd(s, j) ==
    IF j <= Len(s) /\ IsSpace(s[j]) THEN SpaceRunEnd(s, j + 1) ELSE j

\* The end of the line that holds position q: the position of its "\n", or
\* Len(s) + 1
EndOfLine(s, q) ==
    LET n == FindChar(s, q, "\n") IN IF n = 0 THEN Len(s) + 1 ELSE n

\* ^docAuthor:\s*(.+)$ (MULTILINE) at the line start i: \s* is greedy and
\* crosses newlines, and gives characters back until (.+) finds one that is
\* no newline; the group runs to the end of that line.
DocAuthorMatchAt(s, i) ==
    LET p  == i + Len(DocAuthorLit)
        w  == SpaceRunEnd(s, p)
        qs == { q \in p..w : q <= Len(s) /\ s[q] # "\n" }
        q  == CHOOSE x \in qs : \A y \in qs : y <= x
    IN  IF /\ (i = 1 \/ s[i - 1] = "\n")
           /\ StartsWithAt(s, i, DocAuthorLit)
           /\ qs # {}
        THEN Some(SubSeq(s, q, EndOfLine(s, q) - 1))
        ELSE None

\* re.search: the match at the leftmost position that has one
RECURSIVE DocAuthorSearchFrom(_, _)
DocAuthorSearchFrom(s, i) ==
    IF i > Len(s) THEN None
    ELSE LET m == DocAuthorMatchAt(s, i)
         IN  IF m # None THEN m ELSE DocAuthorSearchFrom(s, i + 1)

\* _read_doc_author_from_srvp: None when the file is missing, when reading
\* it raises, or when no line matches; else the stripped group.
ReadDocAuthorFromSrvp(srvp_file) ==
    IF srvp_file.exists /\ srvp_file.readable
    THEN LET m == DocAuthorSearchFrom(srvp_file.text, 1)
         IN  IF m # None THEN Some(Strip(m[1])) ELSE None
    ELSE None

\* _git_cmd_output: the stripped output, None when git fails.  out is the
\* optional raw output of the command.
GitCmdOutput(out) ==
    IF out = None THEN None ELSE Some(Strip(out[1]))

\* core.version._load_version, behind the guarded import of
\* _get_release_metadata
LoadVersion(importable, vfile) ==
    IF ~importable THEN DefaultVersion
    ELSE IF vfile.exists /\ vfile.readable THEN Strip(vfile.text)
    ELSE DefaultVersion

\* datetime.fromisoformat(iso.replace("Z", "+00:00")).date().isoformat():
\* the calendar date of a timestamp that starts YYYY-MM-DD, None (the
\* exception is caught) for any other text.
IsoToDate(iso) ==
    IF /\ Len(iso) >= 10
       /\ \A k \in {1, 2, 3, 4, 6, 7, 9, 10} : IsDigit(iso[k])
       /\ iso[5] = "-" /\ iso[8] = "-"
       /\ (Len(iso) = 10 \/ iso[11] = "T")
    THEN Some(SubSeq(iso, 1, 10))
    ELSE None

\* ResolveAuthor consulting GITHUB_ACTOR before RELEASE_AUTHOR
ResolveAuthor_ActorFirst(env, srvp_file, git_env) ==
    Or(env.GITHUB_ACTOR,
       Or(env.RELEASE_AUTHOR,
          Or(ReadDocAuthorFromSrvp(srvp_file),
             Or(GitCmdOutput(git_env.user_name),
                Some(UnknownAuthor)))))[1]

\* The author chain of _get_release_metadata
ResolveAuthor(env, srvp_file, git_env) ==
    Or(env.RELEASE_AUTHOR,
       Or(env.GITHUB_ACTOR,
          Or(ReadDocAuthorFromSrvp(srvp_file),
             Or(GitCmdOutput(git_env.user_name),
                Some(UnknownAuthor)))))[1]

\* The date chain of _get_release_metadata
ResolveDate(env, git_env, now) ==
    LET d1  == env.RELEASE_DATE
        iso == GitCmdOutput(git_env.log_date)
        d2  == IF Truthy(d1) THEN d1
               ELSE IF Truthy(iso) THEN IsoToDate(iso[1])
               ELSE d1
    IN  IF Truthy(d2) THEN d2[1] ELSE now

GetReleaseMetadata(env, srvp_file, git_env, importable, vfile, now) ==
    [version |-> LoadVersion(importable, vfile),
     author  |-> ResolveAuthor(env, srvp_file, git_env),
     date    |-> ResolveDate(env, git_env, now)]

(***************************************************************************)
(* parse_test_report                                                        *)
(***************************************************************************)
\* The file at REPORT_PATH.  kind is "missing"; "invalid_json" (json.load
\* raises); "not_an_object" (report.get raises); "bad_record" (a test
\* without nodeid or outcome: KeyError); or "object", whose tests are the
\* records of report.get("tests", []).
Feed(kind, tests) ==
    [kind |-> kind, tests |-> tests]

\* test_outcomes[test["nodeid"]] = test["outcome"], in feed order: a later
\* record of the same nodeid replaces the earlier one.
RECURSIVE OutcomesOf(_, _)
OutcomesOf(map, tests) ==
    IF tests = << >> THEN map
    ELSE LET t == Head(tests)
         IN  OutcomesOf(
                 [x \in DOMAIN map \cup {t.nodeid} |->
                      IF x = t.nodeid THEN t.outcome ELSE map[x]],
                 Tail(tests))

NoOutcomes ==
    [x \in {} |-> "skipped"]

\* ParseTestReport taking a missing or unparseable feed for an empty one
ParseTestReport_NoRaise(f) ==
    [raised |-> FALSE,
     outcomes |-> IF f.kind = "object" THEN OutcomesOf(NoOutcomes, f.tests)
                  ELSE NoOutcomes]

\* parse_test_report: raised, or the outcome store
ParseTestReport(f) ==
    IF f.kind = "object"
    THEN [raised |-> FALSE, outcomes |-> OutcomesOf(NoOutcomes, f.tests)]
    ELSE [raised |-> TRUE, outcomes |-> NoOutcomes]

(***************************************************************************)
(* get_requirement_statuses                                                 *)
(***************************************************************************)
StatusFailed ==
    "[x] Failed"

StatusVerified ==
    "[x] Verified"

StatusNotStarted ==
    "[ ] Not Started"

\* test_outcomes.get(name, "skipped")
OutcomeOf(outcomes, name) ==
    IF name \in DOMAIN outcomes THEN outcomes[name] ELSE "skipped"

\* [test_outcomes.get(name, "skipped") for name in test_names]
OutcomesFor(outcomes, test_names) ==
    [i \in 1..Len(test_names) |-> OutcomeOf(outcomes, test_names[i])]

\* HasFailed looking at the first outcome only
HasFailed_FirstOnly(os) ==
    os # << >> /\ os[1] = "failed"

\* "failed" in outcomes
HasFailed(os) ==
    \E i \in 1..Len(os) : os[i] = "failed"

\* AllPassed with any() in the place of all()
AllPassed_Any(os) ==
    \E i \in 1..Len(os) : os[i] = "passed"

\* outcomes and all(o == "passed" for o in outcomes)
AllPassed(os) ==
    os # << >> /\ \A i \in 1..Len(os) : os[i] = "passed"

\* The status dictionary: a requirement with no clear status gets no entry.
GetRequirementStatuses(outcomes, map) ==
    LET decided == { r \in DOMAIN map :
                        \/ HasFailed(OutcomesFor(outcomes, map[r]))
                        \/ AllPassed(OutcomesFor(outcomes, map[r])) }
    IN  [r \in decided |->
            IF HasFailed(OutcomesFor(outcomes, map[r]))
            THEN StatusFailed ELSE StatusVerified]

(***************************************************************************)
(* build_markdown_report                                                    *)
(***************************************************************************)
\* sum(1 for o in test_outcomes.values() if o == value)
CountOutcome(outcomes, value) ==
    Cardinality({ t \in DOMAIN outcomes : outcomes[t] = value })

\* sorted(ids): ascending by code point
RECURSIVE Sorted(_)
Sorted(ids) ==
    IF ids = {} THEN << >>
    ELSE LET m == CHOOSE x \in ids : \A y \in ids \ {x} : StrLess(x, y)
         IN  << m >> \o Sorted(ids \ {m})

\* req_statuses.get(req_id, "[ ] Not Started")
StatusOf(statuses, req_id) ==
    IF req_id \in DOMAIN statuses THEN statuses[req_id] ELSE StatusNotStarted

\* req_to_tests.get(req_id, [])
TestsOf(map, req_id) ==
    IF req_id \in DOMAIN map THEN map[req_id] ELSE << >>

\* sum(1 for rid in ids if status_of(rid).endswith(word)): of the three
\* status texts, the one that ends with the word is the status itself
CountStatus(statuses, ids, status) ==
    Cardinality({ i \in DOMAIN ids : StatusOf(statuses, ids[i]) = status })

Badge(outcome) ==
    IF outcome = "passed" THEN "pass"
    ELSE IF outcome = "failed" THEN "fail"
    ELSE "neutral"

\* One row of the requirements table
TableRow(statuses, map, req_id) ==
    [req_id |-> req_id,
     status |-> StatusOf(statuses, req_id),
     tests  |-> TestsOf(map, req_id)]

\* One block of the details section: the status line, one evidence line per
\* mapped test, and the "No tests mapped yet" line when there is none.
DetailBlock(statuses, map, outcomes, req_id) ==
    LET ts == TestsOf(map, req_id)
    IN  [req_id   |-> req_id,
         status   |-> StatusOf(statuses, req_id),
         evidence |-> [i \in 1..Len(ts) |->
                          [badge   |-> Badge(OutcomeOf(outcomes, ts[i])),
                           nodeid  |-> ts[i],
                           outcome |-> OutcomeOf(outcomes, ts[i])]],
         no_tests |-> (ts = << >>)]

\* The report, as the values its lines print.  ids_from_docs and meta are
\* what extract_requirement_ids_from_docs and _get_release_metadata return.
BuildMarkdownReport(statuses, map, outcomes, ids_from_docs, meta) ==
    LET all_req_ids == Sorted(DOMAIN map \cup ids_from_docs)
        total_reqs  == Len(all_req_ids)
        verified    == CountStatus(statuses, all_req_ids, StatusVerified)
        req_failed  == CountStatus(statuses, all_req_ids, StatusFailed)
    IN  [docVersion  |-> meta.version,
         docAuthor   |-> meta.author,
         createdDate |-> meta.date,
         total_tests |-> Cardinality(DOMAIN outcomes),
         passed      |-> CountOutcome(outcomes, "passed"),
         failed      |-> CountOutcome(outcomes, "failed"),
         skipped     |-> CountOutcome(outcomes, "skipped"),
         total_reqs  |-> total_reqs,
         verified    |-> verified,
         req_failed  |-> req_failed,
         pending     |-> total_reqs - verified - req_failed,
         table       |-> [i \in 1..total_reqs |->
                             TableRow(statuses, map, all_req_ids[i])],
         details     |-> [i \in 1..total_reqs |->
                             DetailBlock(statuses, map, outcomes, all_req_ids[i])]]

(***************************************************************************)
(* The working tree and the environment of a run                            *)
(***************************************************************************)
ReqA1 ==
    << "R", "E", "Q", "-", "A", "-", "0", "0", "1" >>

ReqB2 ==
    << "R", "E", "Q", "-", "B", "-", "0", "0", "2" >>

ReqC3 ==
    << "R", "E", "Q", "-", "C", "-", "0", "0", "3" >>

FileNameA ==
    << "t", "e", "s", "t", "_", "a", ".", "p", "y" >>

FileNameB ==
    << "t", "e", "s", "t", "_", "b", ".", "p", "y" >>

TestA ==
    FullTestName(FileNameA, << "t", "e", "s", "t", "_", "a" >>)

TestB ==
    FullTestName(FileNameA, << "t", "e", "s", "t", "_", "b" >>)

TestC ==
    FullTestName(FileNameB, << "t", "e", "s", "t", "_", "c" >>)

DefA ==
    << "d", "e", "f", " ", "t", "e", "s", "t", "_", "a", "(", ")", ":" >>

DefB ==
    << "d", "e", "f", " ", "t", "e", "s", "t", "_", "b", "(", ")", ":" >>

DefC ==
    << "d", "e", "f", " ", "t", "e", "s", "t", "_", "c", "(", ")", ":" >>

Newline ==
    << "\n" >>

Blank ==
    << " " >>

CodeLine ==
    << "x", "=", "1" >>

\* tests/test_a.py: test_a documents REQ-A-001 and REQ-B-002, test_b
\* documents REQ-A-001
ContentA ==
    DefA \o Newline \o TripleQuote \o ReqA1 \o Blank \o ReqB2 \o TripleQuote
         \o Newline \o CodeLine \o Newline
         \o DefB \o Newline \o TripleQuote \o ReqA1 \o TripleQuote
         \o Newline \o CodeLine \o Newline

\* tests/test_b.py: test_c documents REQ-A-001
ContentB ==
    DefC \o Newline \o TripleQuote \o ReqA1 \o TripleQuote
         \o Newline \o CodeLine \o Newline

TestFile(name, content) ==
    [name |-> name, readable |-> TRUE, content |-> content]

UnreadableTestFile(name) ==
    [name |-> name, readable |-> FALSE, content |-> << >>]

\* The orders in which TESTS_DIR.glob("test_*.py") may yield the files
TestTrees ==
    { << TestFile(FileNameA, ContentA) >>,
      << TestFile(FileNameA, ContentA), TestFile(FileNameB, ContentB) >>,
      << TestFile(FileNameB, ContentB), TestFile(FileNameA, ContentA) >>,
      << TestFile(FileNameA, ContentA), UnreadableTestFile(FileNameB) >> }

SrvpText ==
    DocAuthorLit \o Blank \o << "D", "o", "c" >> \o Newline \o ReqA1 \o Blank \o ReqC3 \o Newline

ReqAB4 ==
    << "R", "E", "Q", "-", "A", "B", "-", "0", "0", "4" >>

SrsText ==
    ReqB2 \o Newline \o ReqC3 \o Blank \o ReqAB4 \o Newline

\* read_text raises on a file that cannot be read; nothing in
\* extract_req_ids_from_docstrings catches it.
ExtractRaises(files) ==
    \E i \in 1..Len(files) : ~files[i].readable

(***************************************************************************)
(* The test run: pytest as a subprocess                                     *)
(***************************************************************************)
\* The tests pytest collects: the test functions of the readable files
RECURSIVE HeaderNames(_, _, _)
HeaderNames(file_name, s, i) ==
    IF i > Len(s) THEN << >>
    ELSE LET h == DefHeaderAt(s, i)
         IN  IF h.ok THEN << FullTestName(file_name, h.name) >>
                              \o HeaderNames(file_name, s, h.end)
             ELSE HeaderNames(file_name, s, i + 1)

RECURSIVE Collected(_)
Collected(files) ==
    IF files = << >> THEN << >>
    ELSE HeaderNames(Head(files).name, Head(files).content, 1)
             \o Collected(Tail(files))

\* The order in which the pytest session visits the files of "tests/": by
\* name, whatever order the directory lists them in
CollectionOrder(files) ==
    LET names == Sorted({ files[i].name : i \in 1..Len(files) })
    IN  [k \in 1..Len(names) |->
            CHOOSE f \in Range(files) : f.name = names[k]]

\* What a finished test session writes to REPORT_PATH
RunRecords(collected, outcomes) ==
    [i \in 1..Len(collected) |->
        [nodeid |-> collected[i], outcome |-> outcomes[collected[i]]]]

\* pytest's exit status for a session that ran: 1 when a test failed, 5 when
\* no test was collected, else 0
SessionExitCode(collected, outcomes) ==
    IF \E i \in 1..Len(collected) : outcomes[collected[i]] = "failed" THEN 1
    ELSE IF collected = << >> THEN 5
    ELSE 0

\* Exit statuses of a session that did not run the tests: interrupted,
\* internal error, usage error
CrashExitCodes ==
    {2, 3, 4}

\* Outcome values a session reports; xfailed, like passed and skipped, leaves
\* the exit status 0
RunOutcomes ==
    {"passed", "failed", "skipped", "xfailed"}

NoRun ==
    [kind |-> "none", exit_code |-> 0 - 1, outcomes |-> NoOutcomes]

(***************************************************************************)
(* State                                                                    *)
(***************************************************************************)
VARIABLES
    pc,                \* the position of main()
    ret,               \* main()'s return value, -1 before it returns
    pytest_available,  \* whether "python -m pytest --version" exits 0
    tests_dir_exists,  \* TESTS_DIR.exists()
    test_files,        \* the files of TESTS_DIR.glob, in the order it yields them
    srvp,              \* the file at SRVP_PATH
    srs,               \* the file at SRS_PATH
    feed,              \* the file at REPORT_PATH
    output_file,       \* the file at OUTPUT_PATH: None (as before the run) or the report
    write_ok,          \* whether OUTPUT_PATH.write_text succeeds
    environ,           \* os.environ: RELEASE_AUTHOR, GITHUB_ACTOR, RELEASE_DATE
    git,               \* raw output of "git config user.name" and "git log -1"
    version_file,      \* core/version_info.txt and whether core.version imports
    today,             \* datetime.now().date().isoformat()
    run,               \* what the pytest subprocess did
    test_outcomes,     \* main's test_outcomes
    req_to_tests,      \* main's req_to_tests
    req_statuses,      \* main's req_statuses
    ids_from_docs,     \* build_markdown_report's ids_from_docs
    metadata,          \* build_markdown_report's (version, author, date)
    prior,             \* the previous run of main(): None, or its feed, result and report
    local_tags,        \* the annotated tags of the local repository
    origin_tags,       \* the tags of the origin remote
    tag_call           \* the last call of create_git_tag: None, or its argument and result

vars ==
    << pc, ret, pytest_available, tests_dir_exists, test_files, srvp, srs, feed,
       output_file, write_ok, environ, git, version_file, today, run,
       test_outcomes, req_to_tests, req_statuses, ids_from_docs, metadata,
       prior, local_tags, origin_tags, tag_call >>

\* The git tags and the calls of hooks/create_git_tag_from_changelog.py
tags ==
    << local_tags, origin_tags, tag_call >>

world ==
    << pytest_available, tests_dir_exists, test_files, srvp, srs, write_ok,
       environ, git, version_file, today >>

NoStatuses ==
    [x \in {} |-> StatusNotStarted]

NoMetadata ==
    [version |-> << >>, author |-> << >>, date |-> << >>]

NoReturn ==
    0 - 1

Env(author, actor, date) ==
    [RELEASE_AUTHOR |-> author, GITHUB_ACTOR |-> actor, RELEASE_DATE |-> date]

Git(user_name, log_date) ==
    [user_name |-> user_name, log_date |-> log_date]

VersionFile(importable, file) ==
    [importable |-> importable, file |-> file]

(***************************************************************************)
(* main()                                                                   *)
(***************************************************************************)
\* return 1
Abort ==
    /\ ret' = 1
    /\ pc' = "done"

\* check_pytest_available, the SRVP warning and the TESTS_DIR check
CheckPrerequisites ==
    /\ pc = "start"
    /\ IF ~pytest_available \/ ~tests_dir_exists
       THEN Abort
       ELSE pc' = "run_tests" /\ ret' = ret
    /\ UNCHANGED << world, prior, tags, feed, output_file, run, test_outcomes, req_to_tests,
                    req_statuses, ids_from_docs, metadata >>

\* run_tests: subprocess.run(..., check=True) raises CalledProcessError on
\* any exit status but 0, and run_tests then returns False.  The session
\* either runs the collected tests (and writes the feed, unless writing it
\* fails) or ends before running them.
RunTests ==
    /\ pc = "run_tests"
    /\ LET collected == Collected(CollectionOrder(test_files))
       IN  \E ran \in BOOLEAN, wrote \in BOOLEAN, crash \in CrashExitCodes,
              outcomes \in [Range(collected) -> RunOutcomes] :
              /\ run' = IF ran
                        THEN [kind |-> "ran",
                              exit_code |-> SessionExitCode(collected, outcomes),
                              outcomes |-> outcomes]
                        ELSE [kind |-> "crashed", exit_code |-> crash,
                              outcomes |-> NoOutcomes]
              /\ feed' = IF ran /\ wrote
                         THEN Feed("object", RunRecords(collected, outcomes))
                         ELSE feed
    /\ IF run'.exit_code = 0
       THEN pc' = "parse" /\ ret' = ret
       ELSE Abort
    /\ UNCHANGED << world, prior, tags, output_file, test_outcomes, req_to_tests,
                    req_statuses, ids_from_docs, metadata >>

\* Step 2: parse_test_report; its exceptions reach main's except clause
ParseStep ==
    /\ pc = "parse"
    /\ LET r == ParseTestReport(feed)
       IN  IF r.raised
           THEN Abort /\ test_outcomes' = test_outcomes
           ELSE /\ test_outcomes' = r.outcomes
                /\ pc' = "extract"
                /\ ret' = ret
    /\ UNCHANGED << world, prior, tags, feed, output_file, run, req_to_tests, req_statuses,
                    ids_from_docs, metadata >>

\* Step 3: extract_req_ids_from_docstrings
ExtractStep ==
    /\ pc = "extract"
    /\ IF ExtractRaises(test_files)
       THEN Abort /\ req_to_tests' = req_to_tests
       ELSE /\ req_to_tests' = ExtractReqIdsFromDocstrings(test_files)
            /\ pc' = "statuses"
            /\ ret' = ret
    /\ UNCHANGED << world, prior, tags, feed, output_file, run, test_outcomes, req_statuses,
                    ids_from_docs, metadata >>

\* Step 4: get_requirement_statuses
StatusesStep ==
    /\ pc = "statuses"
    /\ req_statuses' = GetRequirementStatuses(test_outcomes, req_to_tests)
    /\ pc' = "write"
    /\ UNCHANGED << world, prior, tags, ret, feed, output_file, run, test_outcomes,
                    req_to_tests, ids_from_docs, metadata >>

\* Step 5: write_markdown_report (build_markdown_report, then write_text,
\* whose exception reaches main's except clause), then return 0
WriteStep ==
    /\ pc = "write"
    /\ ids_from_docs' = ExtractRequirementIdsFromDocs(srvp, srs)
    /\ metadata' = GetReleaseMetadata(environ, srvp, git, version_file.importable,
                                      version_file.file, today)
    /\ IF write_ok
       THEN /\ output_file' = Some(BuildMarkdownReport(req_statuses, req_to_tests,
                                       test_outcomes, ids_from_docs', metadata'))
            /\ ret' = 0
       ELSE /\ output_file' = output_file
            /\ ret' = 1
    /\ pc' = "done"
    /\ UNCHANGED << world, prior, tags, feed, run, test_outcomes, req_to_tests, req_statuses >>

(***************************************************************************)
(* Spec: runs of main() over a small working tree                           *)
(***************************************************************************)
Today ==
    << "2", "0", "2", "6", "-", "1", "1", "-", "0", "4" >>

\* A feed left by an earlier run, in which test_a failed
StaleFeed ==
    Feed("object", << [nodeid |-> TestA, outcome |-> "failed"],
                      [nodeid |-> TestB, outcome |-> "passed"] >>)

BareEnv ==
    Env(None, None, None)

NoGit ==
    Git(None, None)

DevGit ==
    Git(Some(<< "D", "e", "v", "\n" >>), Some(<< "2", "0", "2", "5", "-", "0", "9", "-", "1", "6", "T", "0", "9", ":", "5", "8", ":", "1", "2", "+", "0", "0", ":", "0", "0", "\n" >>))

NoVersion ==
    VersionFile(FALSE, MissingFile)

\* The metadata sources of the runs of Spec: none at all, or all of them
MetaWorlds ==
    { << BareEnv, NoGit, NoVersion >>,
      << Env(Some(<< "R", "e", "l" >>), Some(<< "b", "o", "t" >>), Some(<< "2", "0", "2", "5", "-", "0", "1", "-", "0", "2" >>)), DevGit,
         VersionFile(TRUE, File(<< "1", ".", "2", ".", "3", "\n" >>)) >> }

\* Nothing has run yet
Fresh ==
    /\ ret = NoReturn
    /\ output_file = None
    /\ run = NoRun
    /\ test_outcomes = NoOutcomes
    /\ req_to_tests = EmptyMap
    /\ req_statuses = NoStatuses
    /\ ids_from_docs = {}
    /\ metadata = NoMetadata
    /\ prior = None
    /\ local_tags = {}
    /\ origin_tags = {}
    /\ tag_call = None

Init ==
    /\ pc = "start"
    /\ pytest_available \in BOOLEAN
    /\ tests_dir_exists \in BOOLEAN
    /\ test_files \in TestTrees
    /\ srvp \in {MissingFile, File(SrvpText)}
    /\ srs = File(SrsText)
    /\ feed \in {Feed("missing", << >>), Feed("invalid_json", << >>),
                 Feed("not_an_object", << >>), StaleFeed}
    /\ write_ok \in BOOLEAN
    /\ \E w \in MetaWorlds :
          /\ environ = w[1]
          /\ git = w[2]
          /\ version_file = w[3]
    /\ today = Today
    /\ Fresh

Next ==
    \/ CheckPrerequisites
    \/ RunTests
    \/ ParseStep
    \/ ExtractStep
    \/ StatusesStep
    \/ WriteStep

Spec ==
    Init /\ [][Next]_vars

(***************************************************************************)
(* SpecRerun: main() run twice over one working tree.  Between the runs the *)
(* documents, the test sources, the environment variables and the git data  *)
(* stay as they are; the day and the order in which the directory lists its *)
(* files are those of the second run.                                       *)
(***************************************************************************)
\* datetime.now().date().isoformat() on the day after Today
NextDay ==
    << "2", "0", "2", "6", "-", "1", "1", "-", "0", "5" >>

Days ==
    {Today, NextDay}

\* The orders in which a directory may list the given files
Listings(files) ==
    { order \in [1..Len(files) -> Range(files)] : Range(order) = Range(files) }

\* What a finished run of main() leaves behind
Finished(feed_read, result, report) ==
    [feed |-> feed_read, ret |-> result, report |-> report]

\* The script is started again after main() returned: its locals are new,
\* the files at REPORT_PATH and OUTPUT_PATH are those the first run left.
Rerun ==
    /\ pc = "done"
    /\ prior = None
    /\ prior' = Some(Finished(feed, ret, output_file))
    /\ pc' = "start"
    /\ ret' = NoReturn
    /\ run' = NoRun
    /\ test_outcomes' = NoOutcomes
    /\ req_to_tests' = EmptyMap
    /\ req_statuses' = NoStatuses
    /\ ids_from_docs' = {}
    /\ metadata' = NoMetadata
    /\ test_files' \in Listings(test_files)
    /\ today' \in Days
    /\ UNCHANGED << pytest_available, tests_dir_exists, srvp, srs, write_ok,
                    environ, git, version_file, feed, output_file, tags >>

\* tests/test_a.py with one test: test_a documents REQ-A-001
ContentSingle ==
    DefA \o Newline \o TripleQuote \o ReqA1 \o TripleQuote
         \o Newline \o CodeLine \o Newline

\* Metadata sources of the runs of SpecRerun: none, every override with git
\* data, and git data alone
RerunWorlds ==
    MetaWorlds \cup { << BareEnv, DevGit, NoVersion >> }

InitRerun ==
    /\ pc = "start"
    /\ pytest_available \in BOOLEAN
    /\ tests_dir_exists = TRUE
    /\ test_files \in Listings(<< TestFile(FileNameA, ContentSingle),
                                   TestFile(FileNameB, ContentB) >>)
    /\ srvp = File(SrvpText)
    /\ srs = File(SrsText)
    /\ feed = Feed("missing", << >>)
    /\ write_ok = TRUE
    /\ \E w \in RerunWorlds :
          /\ environ = w[1]
          /\ git = w[2]
          /\ version_file = w[3]
    /\ today = Today
    /\ Fresh

NextRerun ==
    \/ CheckPrerequisites
    \/ RunTests
    \/ ParseStep
    \/ ExtractStep
    \/ StatusesStep
    \/ WriteStep
    \/ Rerun

SpecRerun ==
    InitRerun /\ [][NextRerun]_vars

(***************************************************************************)
(* Bounded inputs of the pipeline's functions                               *)
(***************************************************************************)
\* The sequences over S of length at most n
SeqsUpTo(S, n) ==
    UNION { [1..k -> S] : k \in 0..n }

RECURSIVE SumLen(_, _)
SumLen(map, keys) ==
    IF keys = {} THEN 0
    ELSE LET k == CHOOSE x \in keys : TRUE
         IN  Len(map[k]) + SumLen(map, keys \ {k})

\* A working tree and environment in which every step succeeds and no
\* metadata source is present
Quiet ==
    /\ pytest_available = TRUE
    /\ tests_dir_exists = TRUE
    /\ write_ok = TRUE
    /\ feed = Feed("missing", << >>)
    /\ environ = BareEnv
    /\ git = NoGit
    /\ version_file = NoVersion
    /\ today = Today

(***************************************************************************)
(* SpecResolve: get_requirement_statuses and build_markdown_report over     *)
(* bounded outcome stores, association maps and documents                   *)
(***************************************************************************)
\* The most (requirement, test) entries of an association map
MaxPairs ==
    3

TestIds ==
    {TestA, TestB, TestC}

\* The tests that the feed reports; test_c is mapped but never reported
ReportedTests ==
    {TestA, TestB}

\* Outcome values of a feed: pytest's passed, failed, skipped, and xfailed as
\* one of its other values
StoreOutcomes ==
    {"passed", "failed", "skipped", "xfailed"}

Stores ==
    UNION { [D -> StoreOutcomes] : D \in SUBSET ReportedTests }

Maps ==
    UNION { { m \in [D -> SeqsUpTo(TestIds, MaxPairs)] : SumLen(m, D) <= MaxPairs } :
            D \in SUBSET {ReqA1, ReqB2} }

InitResolve ==
    /\ pc = "statuses"
    /\ Quiet
    /\ test_files = << TestFile(FileNameA, ContentA) >>
    /\ srvp \in {MissingFile, UnreadableFile, File(SrvpText)}
    /\ srs \in {MissingFile, File(SrsText)}
    /\ ret = NoReturn
    /\ output_file = None
    /\ run = NoRun
    /\ test_outcomes \in Stores
    /\ req_to_tests \in Maps
    /\ req_statuses = NoStatuses
    /\ ids_from_docs = {}
    /\ metadata = NoMetadata
    /\ prior = None
    /\ local_tags = {}
    /\ origin_tags = {}
    /\ tag_call = None

NextResolve ==
    \/ StatusesStep
    \/ WriteStep

SpecResolve ==
    InitResolve /\ [][NextResolve]_vars

(***************************************************************************)
(* SpecDocstrings: extract_req_ids_from_docstrings over bounded test files  *)
(***************************************************************************)
\* The most pieces of a test file's content
MaxPieces ==
    6

ContentPieces ==
    {DefA, DefB, Newline, CodeLine, TripleQuote, ReqA1}

InitDocstrings ==
    /\ pc = "extract"
    /\ Quiet
    /\ \E ps \in SeqsUpTo(ContentPieces, MaxPieces) :
          test_files = << TestFile(FileNameA, Flatten(ps)) >>
    /\ srvp = MissingFile
    /\ srs = MissingFile
    /\ Fresh

NextDocstrings ==
    ExtractStep

SpecDocstrings ==
    InitDocstrings /\ [][NextDocstrings]_vars

(***************************************************************************)
(* SpecGrammar: the requirement pattern over bounded texts, scanned as the  *)
(* SRVP document and as the docstring of test_a                             *)
(***************************************************************************)
\* The most pieces of a scanned text
MaxTextPieces ==
    6

ReqLit ==
    << "R", "E", "Q", "-" >>

GrammarPieces ==
    {ReqLit, << "A", "-" >>, << "f", "-" >>, << "0" >>, Blank}

\* The text both scans read: all of the SRVP document, and the docstring of
\* test_a
ScannedText ==
    srvp.text

InitGrammar ==
    /\ pc = "extract"
    /\ Quiet
    /\ \E ps \in SeqsUpTo(GrammarPieces, MaxTextPieces) :
          /\ srvp = File(Flatten(ps))
          /\ test_files = << TestFile(FileNameA,
                                 DefA \o Newline \o TripleQuote \o Flatten(ps)
                                      \o TripleQuote \o Newline) >>
    /\ srs = MissingFile
    /\ Fresh

NextGrammar ==
    \/ ExtractStep
    \/ StatusesStep
    \/ WriteStep

SpecGrammar ==
    InitGrammar /\ [][NextGrammar]_vars

(***************************************************************************)
(* SpecMeta: the author chain over bounded environments and SRVP texts      *)
(***************************************************************************)
\* The most pieces of the SRVP document's text
MaxSrvpPieces ==
    4

SrvpPieces ==
    {DocAuthorLit, Blank, Newline, << "D", "o", "c" >>}

InitMeta ==
    /\ pc = "write"
    /\ pytest_available = TRUE
    /\ tests_dir_exists = TRUE
    /\ write_ok = TRUE
    /\ feed = Feed("missing", << >>)
    /\ test_files = << TestFile(FileNameA, ContentA) >>
    /\ \E a \in {None, Some(<< >>), Some(<< "R", "e", "l" >>)},
          c \in {None, Some(<< >>), Some(<< "b", "o", "t" >>)},
          g \in {None, Some(Newline), Some(<< "D", "e", "v", "\n" >>)} :
          /\ environ = Env(a, c, None)
          /\ git = Git(g, None)
    /\ srvp \in {MissingFile, UnreadableFile}
                  \cup { File(Flatten(ps)) : ps \in SeqsUpTo(SrvpPieces, MaxSrvpPieces) }
    /\ srs = MissingFile
    /\ version_file = NoVersion
    /\ today = Today
    /\ Fresh

NextMeta ==
    WriteStep

SpecMeta ==
    InitMeta /\ [][NextMeta]_vars

(***************************************************************************)
(* hooks/create_git_tag_from_changelog.py: check_if_tag_exists and          *)
(* create_git_tag over one repository and its origin remote                 *)
(***************************************************************************)
\* Versions that the changelog's first section may name
Versions ==
    { << "1", ".", "0", ".", "0" >>,
      << "1", ".", "0", ".", "1" >>,
      << "1", ".", "1", ".", "0" >> }

\* The message argument: None, or a message of the caller
Messages ==
    { None, Some(<< "f", "i", "x" >>) }

\* f"Release version {version}"
DefaultMessage(version) ==
    << "R", "e", "l", "e", "a", "s", "e", " ",
       "v", "e", "r", "s", "i", "o", "n", " " >> \o version

\* f"v{version}"
TagName(version) ==
    << "v" >> \o version

\* An annotated tag: "git tag -a <name> -m <message>"
AnnotatedTag(name, message) ==
    [name |-> name, message |-> message]

TagNames(repo_tags) ==
    { t.name : t \in repo_tags }

\* check_if_tag_exists: "git tag -l <tag>" lists the tags of the local
\* repository, and only those; when the command fails the answer is False.
CheckIfTagExists(tag, local, list_ok) ==
    list_ok /\ tag \in TagNames(local)

\* The argument and the result of a call of create_git_tag
Returned(version, result) ==
    [version |-> version, result |-> result]

\* create_git_tag(version, message).  Each git command may fail; "git tag -a"
\* fails on a name that is taken, "git push" on a name that origin holds for
\* another tag.  The tag stays in the local repository when the push fails.
CreateGitTag ==
    /\ \E version \in Versions, message \in Messages,
          list_ok \in BOOLEAN, tag_ok \in BOOLEAN, push_ok \in BOOLEAN :
          LET msg == IF message = None THEN DefaultMessage(version) ELSE message[1]
              tag_name == TagName(version)
              created == AnnotatedTag(tag_name, msg)
              pushed == /\ push_ok
                        /\ \A t \in origin_tags : t.name = tag_name => t = created
          IN  IF CheckIfTagExists(tag_name, local_tags, list_ok)
              THEN /\ tag_call' = Some(Returned(version, TRUE))
                   /\ UNCHANGED << local_tags, origin_tags >>
              ELSE IF ~tag_ok \/ tag_name \in TagNames(local_tags)
              THEN /\ tag_call' = Some(Returned(version, FALSE))
                   /\ UNCHANGED << local_tags, origin_tags >>
              ELSE /\ local_tags' = local_tags \cup {created}
                   /\ origin_tags' = IF pushed THEN origin_tags \cup {created}
                                      ELSE origin_tags
                   /\ tag_call' = Some(Returned(version, pushed))
    /\ UNCHANGED << world, prior, pc, ret, feed, output_file, run, test_outcomes,
                    req_to_tests, req_statuses, ids_from_docs, metadata >>

\* A repository without tags, before any call
InitTag ==
    /\ pc = "start"
    /\ Quiet
    /\ test_files = << TestFile(FileNameA, ContentA) >>
    /\ srvp = MissingFile
    /\ srs = MissingFile
    /\ Fresh

NextTag ==
    CreateGitTag

SpecTag ==
    InitTag /\ [][NextTag]_vars

(***************************************************************************)
(* Properties                                                               *)
(***************************************************************************)
\* main() has returned after writing the report
Written ==
    pc = "done" /\ output_file # None

\* The outcome a test counts with: "skipped" when the store has no record
CountedOutcome(t) ==
    IF t \in DOMAIN test_outcomes THEN test_outcomes[t] ELSE "skipped"

\* The tests the association map lists for a requirement id
MappedTests(r) ==
    IF r \in DOMAIN req_to_tests THEN req_to_tests[r] ELSE << >>

SomeFailed(r) ==
    \E i \in 1..Len(MappedTests(r)) : CountedOutcome(MappedTests(r)[i]) = "failed"

EveryPassed(r) ==
    /\ Len(MappedTests(r)) >= 1
    /\ \A i \in 1..Len(MappedTests(r)) : CountedOutcome(MappedTests(r)[i]) = "passed"

\* The written report shows requirement r with status st, in the table and
\* in the details
Shows(r, st) ==
    LET rep == output_file[1]
    IN  /\ \E i \in DOMAIN rep.table : rep.table[i].req_id = r
        /\ \A i \in DOMAIN rep.table :
              rep.table[i].req_id = r => rep.table[i].status = st
        /\ \E i \in DOMAIN rep.details : rep.details[i].req_id = r
        /\ \A i \in DOMAIN rep.details :
              rep.details[i].req_id = r => rep.details[i].status = st

\* The requirement ids of the written report's table, in row order
RowIds ==
    [i \in DOMAIN output_file[1].table |-> output_file[1].table[i].req_id]

\* C1 (failure dominance): once get_requirement_statuses has run, every
\* requirement id of the association map with at least one failed outcome
\* among its tests (an absent test counting as skipped) has the Failed
\* status, whatever the other outcomes and their order, and the written
\* report shows it as Failed.
C1_FailureDominance ==
    \A r \in DOMAIN req_to_tests :
        SomeFailed(r) =>
            /\ pc \in {"write", "done"} =>
                  r \in DOMAIN req_statuses /\ req_statuses[r] = "[x] Failed"
            /\ Written => Shows(r, "[x] Failed")

\* A requirement whose tests' outcomes are passed, failed, skipped in that
\* order is reported Failed.
C1_Witness ==
    /\ Written
    /\ \E r \in DOMAIN req_to_tests :
          /\ Len(req_to_tests[r]) = 3
          /\ CountedOutcome(req_to_tests[r][1]) = "passed"
          /\ CountedOutcome(req_to_tests[r][2]) = "failed"
          /\ req_to_tests[r][3] \notin DOMAIN test_outcomes
          /\ Shows(r, "[x] Failed")

\* C2 (all-pass verification): a requirement's resolved status is Verified
\* exactly when it has at least one associated test and every associated
\* outcome is passed; with no failure and either no associated tests or a
\* non-passed outcome it is reported Not Started.
C2_VerifiedIffAllPassed ==
    /\ pc \in {"write", "done"} =>
          \A r \in DOMAIN req_to_tests :
              (r \in DOMAIN req_statuses /\ req_statuses[r] = "[x] Verified")
                  <=> EveryPassed(r)
    /\ Written =>
          \A i \in DOMAIN RowIds :
              /\ Shows(RowIds[i], "[x] Verified") <=> EveryPassed(RowIds[i])
              /\ (~SomeFailed(RowIds[i]) /\ ~EveryPassed(RowIds[i]))
                     => Shows(RowIds[i], "[ ] Not Started")

\* One requirement with outcomes passed, skipped is Not Started, another with
\* a single passed test is Verified, and a third has no tests at all.
C2_Witness ==
    /\ Written
    /\ \E r1, r2 \in DOMAIN req_to_tests :
          /\ Len(req_to_tests[r1]) = 2
          /\ CountedOutcome(req_to_tests[r1][1]) = "passed"
          /\ CountedOutcome(req_to_tests[r1][2]) = "skipped"
          /\ Shows(r1, "[ ] Not Started")
          /\ EveryPassed(r2)
          /\ Shows(r2, "[x] Verified")
    /\ \E i \in DOMAIN RowIds :
          /\ RowIds[i] \notin DOMAIN req_to_tests
          /\ Shows(RowIds[i], "[ ] Not Started")

\* The ids a document holds: none when it is missing or cannot be read
FoundIn(doc) ==
    IF ~doc.exists THEN {}
    ELSE IF ~doc.readable THEN {}
    ELSE Range(FindAll(doc.text))

\* C5 (union completeness): the requirement ids of the report's table are
\* exactly the ids found in the SRVP/SRS documents together with the keys
\* of the association map, each once, in ascending lexicographic order, and
\* the details section has the same ids in the same order; a missing
\* document contributes none.
C5_UnionCompleteness ==
    Written =>
        /\ Range(RowIds) = DOMAIN req_to_tests \cup FoundIn(srvp) \cup FoundIn(srs)
        /\ \A i, j \in DOMAIN RowIds : i < j => StrLess(RowIds[i], RowIds[j])
        /\ Len(output_file[1].details) = Len(RowIds)
        /\ \A i \in DOMAIN RowIds : output_file[1].details[i].req_id = RowIds[i]

\* The SRVP document is missing, the SRS document gives three ids, the map
\* has the key REQ-A-001 alone: four rows, REQ-A-001 before REQ-AB-004.
C5_Witness ==
    /\ Written
    /\ ~srvp.exists
    /\ srs.exists
    /\ DOMAIN req_to_tests = {ReqA1}
    /\ RowIds = << ReqA1, ReqAB4, ReqB2, ReqC3 >>

\* C9 (test summary counters): the reported total is the number of records
\* of the outcome store, and passed, failed and skipped classify every
\* record exactly once, any value other than passed/failed counting as
\* skipped, so that passed + failed + skipped = total.
C9_CountersPartition ==
    Written =>
        LET rep == output_file[1]
        IN  /\ rep.total_tests = Cardinality(DOMAIN test_outcomes)
            /\ rep.passed =
                   Cardinality({ t \in DOMAIN test_outcomes : test_outcomes[t] = "passed" })
            /\ rep.failed =
                   Cardinality({ t \in DOMAIN test_outcomes : test_outcomes[t] = "failed" })
            /\ rep.skipped =
                   Cardinality({ t \in DOMAIN test_outcomes :
                                    test_outcomes[t] \notin {"passed", "failed"} })
            /\ rep.passed + rep.failed + rep.skipped = rep.total_tests

\* The run meets a fatal condition: pytest unavailable, tests directory
\* missing, the test subprocess failed, or (once the subprocess has ended)
\* the feed missing or not parseable as the expected structure
FatalCondition ==
    \/ ~pytest_available
    \/ ~tests_dir_exists
    \/ (run.kind # "none" /\ run.exit_code # 0)
    \/ (run.kind # "none" /\ feed.kind # "object")

\* test_outcomes holds the records of the feed, and req_statuses a status
\* for every mapped requirement that has a failure or passes throughout
ParsedAndResolved ==
    /\ feed.kind = "object"
    /\ DOMAIN test_outcomes = { feed.tests[i].nodeid : i \in DOMAIN feed.tests }
    /\ DOMAIN req_statuses \subseteq DOMAIN req_to_tests
    /\ \A r \in DOMAIN req_to_tests :
          (SomeFailed(r) \/ EveryPassed(r)) => r \in DOMAIN req_statuses

\* C3 (failed tests are not fatal): a run whose test subprocess ran the
\* tests with some of them failing, and that meets no other failure, does
\* not abort: main() returns 0 and the report is written.
C3_FailedTestsNotFatal ==
    ( /\ pc = "done"
      /\ run.kind = "ran"
      /\ \E t \in DOMAIN run.outcomes : run.outcomes[t] = "failed"
      /\ feed.kind = "object"
      /\ ~ExtractRaises(test_files)
      /\ write_ok )
        => (ret = 0 /\ output_file # None)

\* C4 (no report on a fatal condition): when a fatal condition occurs the
\* file at OUTPUT_PATH is never written in the run and main returns
\* non-zero; the report is written only after the feed was parsed and the
\* statuses resolved; and main returns 0 only if the report was written.
C4_NoReportOnFatal ==
    /\ FatalCondition => output_file = None
    /\ (FatalCondition /\ pc = "done") => (ret # 0 /\ ret # NoReturn)
    /\ output_file # None => (pc = "done" /\ ParsedAndResolved)
    /\ ret = 0 => output_file # None

\* The subprocess exits 0 yet the feed does not parse: main returns 1 and
\* the report is as it was.
C4_Witness ==
    /\ pc = "done"
    /\ run.kind = "ran"
    /\ run.exit_code = 0
    /\ feed.kind = "invalid_json"
    /\ ret = 1
    /\ output_file = None

\* C6 (no duplicate test ids): in the association map, the list of test ids
\* of every requirement id holds no test id twice.
C6_NoDuplicateTests ==
    \A r \in DOMAIN req_to_tests :
        \A i, j \in 1..Len(req_to_tests[r]) :
            i < j => req_to_tests[r][i] # req_to_tests[r][j]

\* The documentation block attached to the declaration at position i: the
\* header, then whitespace only, then a triple-quoted block
AttachedBlockAt(s, i) ==
    LET h  == DefHeaderAt(s, i)
        j  == IF h.ok THEN SpaceRunEnd(s, h.end) ELSE 0
        q2 == IF j > 0 /\ StartsWithAt(s, j, TripleQuote)
              THEN FindLit(s, j + 3, TripleQuote) ELSE 0
    IN  IF q2 > 0
        THEN [ok |-> TRUE, name |-> h.name, block |-> SubSeq(s, j + 3, q2 - 1)]
        ELSE [ok |-> FALSE, name |-> << >>, block |-> << >>]

\* C7 (annotation mode reads the attached block only): a requirement id is
\* associated with test T only if it occurs inside the documentation block
\* attached directly after a declaration of T, with only whitespace in
\* between; a declaration without such a block gets no ids from later
\* strings, later tests' blocks or its body.
C7_OnlyAttachedDocstring ==
    \A r \in DOMAIN req_to_tests :
        \A k \in 1..Len(req_to_tests[r]) :
            \E f \in 1..Len(test_files) :
                \E i \in 1..Len(test_files[f].content) :
                    LET a == AttachedBlockAt(test_files[f].content, i)
                    IN  /\ a.ok
                        /\ FullTestName(test_files[f].name, a.name) = req_to_tests[r][k]
                        /\ r \in Range(FindAll(a.block))

\* An optional input is given: set, and not empty
Given(o) ==
    o # None /\ o[1] # << >>

\* git yields no user name: the command fails or prints nothing
NoVersionControlData ==
    git.user_name = None \/ \A k \in DOMAIN git.user_name[1] : IsSpace(git.user_name[1][k])

\* The SRVP document has no docAuthor entry: it is missing, cannot be read,
\* or its text holds no "docAuthor:"
NoDocAuthorEntry ==
    \/ ~srvp.exists
    \/ ~srvp.readable
    \/ FindLit(srvp.text, 1, DocAuthorLit) = 0

\* C8 (author fallback order), as claimed: docAuthor is RELEASE_AUTHOR
\* whenever one is given, whatever the other sources; and with no override
\* inputs and no version-control data docAuthor is "Unknown".
C8_AuthorFallback ==
    Written =>
        /\ Given(environ.RELEASE_AUTHOR) =>
              output_file[1].docAuthor = environ.RELEASE_AUTHOR[1]
        /\ ( /\ ~Given(environ.RELEASE_AUTHOR)
             /\ ~Given(environ.GITHUB_ACTOR)
             /\ NoVersionControlData )
              => output_file[1].docAuthor = UnknownAuthor

\* C8, amended: docAuthor is RELEASE_AUTHOR whenever a non-empty one is
\* given, whatever the other sources; and with no override inputs, no
\* docAuthor entry in the SRVP document and no version-control data
\* docAuthor is "Unknown".
C8_AuthorFallbackAmended ==
    Written =>
        /\ Given(environ.RELEASE_AUTHOR) =>
              output_file[1].docAuthor = environ.RELEASE_AUTHOR[1]
        /\ ( /\ ~Given(environ.RELEASE_AUTHOR)
             /\ ~Given(environ.GITHUB_ACTOR)
             /\ NoDocAuthorEntry
             /\ NoVersionControlData )
              => output_file[1].docAuthor = UnknownAuthor

\* RELEASE_AUTHOR is given while the CI actor, the SRVP front matter and git
\* all offer an author too: the report carries RELEASE_AUTHOR.
C8_Witness ==
    /\ Written
    /\ Given(environ.RELEASE_AUTHOR)
    /\ Given(environ.GITHUB_ACTOR)
    /\ Truthy(ReadDocAuthorFromSrvp(srvp))
    /\ ~NoVersionControlData
    /\ output_file[1].docAuthor = environ.RELEASE_AUTHOR[1]

\* REQ-, then one or more groups of uppercase letters each closed by '-',
\* then exactly three digits, and nothing else
InGrammar(tok) ==
    LET n   == Len(tok)
        mid == SubSeq(tok, 5, n - 3)
    IN  /\ n >= 9
        /\ SubSeq(tok, 1, 4) = << "R", "E", "Q", "-" >>
        /\ \A k \in (n - 2)..n : IsDigit(tok[k])
        /\ \A k \in 1..Len(mid) : IsUpper(mid[k]) \/ mid[k] = "-"
        /\ mid[1] # "-"
        /\ mid[Len(mid)] = "-"
        /\ \A k \in 1..(Len(mid) - 1) : ~(mid[k] = "-" /\ mid[k + 1] = "-")

\* The id occurs in the text as a whole three-digit token: some occurrence
\* of it is not followed by a further digit
OccursWithThreeDigits(s, id) ==
    \E i \in 1..Len(s) :
        /\ StartsWithAt(s, i, id)
        /\ (i + Len(id) > Len(s) \/ ~IsDigit(s[i + Len(id)]))

\* C10 (grammar soundness): in document mode and in annotation mode a scan
\* yields an identifier only for text that is exactly REQ-, one or more
\* groups of uppercase letters each closed by '-', and exactly three
\* digits; a malformed near-match (lowercase segment, two digits, four
\* digits) yields nothing.  Of the token's boundaries only the digit count
\* is held against the scan: an id cut out of a longer run of digits is a
\* near-match.
C10_GrammarSoundness ==
    /\ pc = "done" =>
          \A id \in ids_from_docs :
              InGrammar(id) /\ OccursWithThreeDigits(ScannedText, id)
    /\ pc \in {"statuses", "write", "done"} =>
          \A id \in DOMAIN req_to_tests :
              InGrammar(id) /\ OccursWithThreeDigits(ScannedText, id)

\* Both runs of main() wrote a report, and the second run read the feed the
\* first run read
TwoRunsSameFeed ==
    /\ pc = "done"
    /\ ret = 0
    /\ prior # None
    /\ prior[1].ret = 0
    /\ feed = prior[1].feed

\* C11: running the full pipeline twice on identical inputs (the same
\* test-result feed, the same documents and test sources, the same metadata
\* overrides) produces the same report text, whatever the order in which the
\* test files are enumerated, whatever the first run left behind and
\* whenever the second run happens.
C11_Idempotence ==
    TwoRunsSameFeed => output_file = prior[1].report

\* The last call of create_git_tag returned True
ReturnedTrue ==
    tag_call # None /\ tag_call[1].result

\* C12: over any sequence of create_git_tag calls, whenever a call returns
\* True the tag v<version> exists both in the local repository and on the
\* origin remote: a True result means the tag was created and pushed.
C12_TrueMeansPushed ==
    ReturnedTrue =>
        /\ TagName(tag_call[1].version) \in TagNames(local_tags)
        /\ TagName(tag_call[1].version) \in TagNames(origin_tags)

====
